---- MODULE Spec2Model ----
(***************************************************************************)
(* Session cache of the actualbudget integration.                          *)
(*                                                                         *)
(* The model follows custom_components/actualbudget/actualbudget.py:       *)
(* class ActualBudget (one object = one session cache), its get_session()  *)
(* and create_session(), and the places that construct a cache and call    *)
(* get_session() on it (sensor.py async_setup_entry, services.py           *)
(* handle_get_transactions).  Worker threads of the executor run the       *)
(* blocking calls; each step of get_session() is one action, so that the   *)
(* interleavings of concurrent callers are explored.                       *)
(*                                                                         *)
(* Time is in minutes.  The backend (the wrapped client library) answers   *)
(* every call nondeterministically.                                        *)
(***************************************************************************)
EXTENDS Integers, Sequences, FiniteSets, TLC

\* ---------------------------------------------------------------- bounds
NumThreads == 2      \* executor worker threads
MaxCaches == 2       \* ActualBudget objects constructed in one run
MaxSessions == 2     \* backend sessions opened in one run
MaxTime == 31        \* the clock stops here
MaxCalls == 3        \* get_session() calls started in one run
MaxMinutes == 2      \* the clock of the sensor polls stops here

\* ------------------------------------------------------- program constants
SESSION_TIMEOUT == 30   \* datetime.timedelta(minutes=30)
MINIMUM_INTERVAL == 1   \* datetime.timedelta(minutes=1)

NoSession == 0       \* self.actual = None
NoThread == 0        \* the lock is free
NoCache == 0         \* no ActualBudget object

Threads == 1..NumThreads
Caches == 1..MaxCaches
Sessions == 1..MaxSessions
\* The clock is read a timeout apart, or a minute more, so that a handle is
\* seen at the ages 0, SESSION_TIMEOUT and SESSION_TIMEOUT + 1.
TickSteps == {SESSION_TIMEOUT, SESSION_TIMEOUT + 1}

\* One account sensor and one budget sensor of the config entry.
Sensors == {"account", "budget"}
\* Balances the backend reports; the first is the one the setup fetched.
InitialBalance == 10
Balances == {InitialBalance, 20}
\* What a query for the sensor's name answers: no row, or its rows (an
\* account row carries a balance, a budget row a month).
AccountRows == {<<>>} \cup {<<b>> : b \in Balances}
BudgetRows == {<<>>, <<1>>, <<2, 1>>}

VARIABLES
    now,              \* datetime.datetime.now()
    calls,            \* get_session() calls started so far
    nCaches,          \* ActualBudget objects constructed so far (ids 1..nCaches)
    entryApi,         \* the cache sensor.async_setup_entry built, or NoCache
    actual,           \* cache -> self.actual
    sessionStartedAt, \* cache -> self.sessionStartedAt
    lock,             \* cache -> thread holding self._lock, or NoThread
    sess,             \* session -> "unused" | "open" | "rejected" | "closed"
    owner,            \* session -> the cache whose create_session opened it
    pc,               \* thread -> position in its call
    api,              \* thread -> the cache it calls get_session() on
    result,           \* thread -> the value get_session() returned to it
    callLog,          \* thread -> backend calls made by its current get_session()
    expiredSeen,      \* thread -> the stored handle found expired when the call began
    available,        \* sensor -> self._available
    balance,          \* sensor -> self._balance
    amounts,          \* sensor -> self._amounts (months)
    lastUpdated,      \* sensor -> self._balance_last_updated
    poll,             \* sensor -> how its last async_update went, "fetching" while it runs
    job,              \* thread -> the sensor whose fetch it runs, or "none"
    fetched           \* sensor -> the rows the backend answered to its last fetch

sensorVars == <<available, balance, amounts, lastUpdated, poll, job, fetched>>

vars == <<now, calls, nCaches, entryApi, actual, sessionStartedAt, lock, sess, owner,
          pc, api, result, callLog, expiredSeen, sensorVars>>

cacheVars == <<nCaches, entryApi>>
threadVars == <<pc, api, result, callLog, expiredSeen>>

Event(op, h, res) == [op |-> op, h |-> h, res |-> res]

\* A backend session that was opened (__enter__ returned) and not closed.
IsOpen(h) == sess[h] \in {"open", "rejected"}

\* The id of the next backend session, or NoSession when the bound is reached.
NextSession ==
    IF \E h \in Sessions : sess[h] = "unused"
    THEN CHOOSE h \in Sessions : sess[h] = "unused" /\ \A g \in Sessions : g < h => sess[g] # "unused"
    ELSE NoSession

\* Expired with the comparison off by one: a handle exactly SESSION_TIMEOUT
\* old counts as expired.
ExpiredAtTimeout(c) ==
    /\ actual[c] # NoSession
    /\ sessionStartedAt[c] + SESSION_TIMEOUT <= now

\* self.actual and self.sessionStartedAt + SESSION_TIMEOUT < datetime.datetime.now()
Expired(c) ==
    /\ actual[c] # NoSession
    /\ sessionStartedAt[c] + SESSION_TIMEOUT < now

Init ==
    /\ now = 0
    /\ calls = 0
    /\ nCaches = 0
    /\ entryApi = NoCache
    /\ actual = [c \in Caches |-> NoSession]
    /\ sessionStartedAt = [c \in Caches |-> 0]
    /\ lock = [c \in Caches |-> NoThread]
    /\ sess = [h \in Sessions |-> "unused"]
    /\ owner = [h \in Sessions |-> NoCache]
    /\ pc = [t \in Threads |-> "idle"]
    /\ api = [t \in Threads |-> NoCache]
    /\ result = [t \in Threads |-> NoSession]
    /\ callLog = [t \in Threads |-> <<>>]
    /\ expiredSeen = [t \in Threads |-> NoSession]
    /\ available = [s \in Sensors |-> TRUE]
    /\ balance = [s \in Sensors |-> InitialBalance]
    /\ amounts = [s \in Sensors |-> <<>>]
    /\ lastUpdated = [s \in Sensors |-> 0]
    /\ poll = [s \in Sensors |-> "none"]
    /\ job = [t \in Threads |-> "none"]
    /\ fetched = [s \in Sensors |-> <<>>]

\* The clock advances.
Tick ==
    /\ \E d \in TickSteps :
        /\ now + d <= MaxTime
        /\ now' = now + d
    /\ UNCHANGED <<calls, cacheVars, actual, sessionStartedAt, lock, sess, owner, threadVars>>
    /\ UNCHANGED sensorVars

\* ActualBudget.__init__: a new cache, no handle, timestamp now, lock free.
NewCache(c) ==
    /\ nCaches' = c
    /\ actual' = [actual EXCEPT ![c] = NoSession]
    /\ sessionStartedAt' = [sessionStartedAt EXCEPT ![c] = now]
    /\ lock' = [lock EXCEPT ![c] = NoThread]

\* hass.async_add_executor_job hands a job to the first free worker.
FirstIdle(t) ==
    /\ pc[t] = "idle"
    /\ \A u \in Threads : u < t => pc[u] # "idle"

\* A thread starts get_session() on cache c.
BeginCall(t, c) ==
    /\ calls < MaxCalls
    /\ calls' = calls + 1
    /\ pc' = [pc EXCEPT ![t] = "acquire"]
    /\ api' = [api EXCEPT ![t] = c]
    /\ result' = [result EXCEPT ![t] = NoSession]
    /\ callLog' = [callLog EXCEPT ![t] = <<>>]

\* The call is over: the thread's locals are gone, and so is the cache object
\* when only this call referred to it (the local api of
\* handle_get_transactions); nothing closes the session it had stored.
EndCall(t) ==
    /\ pc' = [pc EXCEPT ![t] = "idle"]
    /\ api' = [api EXCEPT ![t] = NoCache]
    /\ result' = [result EXCEPT ![t] = NoSession]
    /\ callLog' = [callLog EXCEPT ![t] = <<>>]
    /\ expiredSeen' = [expiredSeen EXCEPT ![t] = NoSession]
    /\ IF api[t] # entryApi
       THEN /\ actual' = [actual EXCEPT ![api[t]] = NoSession]
            /\ sessionStartedAt' = [sessionStartedAt EXCEPT ![api[t]] = 0]
       ELSE UNCHANGED <<actual, sessionStartedAt>>

\* ActualAccountSensor.__init__ / ActualBudgetSensor.__init__, called by
\* sensor.async_setup_entry with lastUpdate = now(): available, with the
\* balance and the (sorted) amounts that the setup fetched.
NewSensors ==
    /\ available' = [s \in Sensors |-> TRUE]
    /\ lastUpdated' = [s \in Sensors |-> now]
    /\ balance' = [s \in Sensors |-> InitialBalance]
    /\ amounts' = [s \in Sensors |-> <<>>]
    /\ UNCHANGED <<poll, job, fetched>>

\* sensor.async_setup_entry: api = ActualBudget(...), kept by every sensor.
SetupEntry ==
    /\ entryApi = NoCache
    /\ nCaches < MaxCaches
    /\ NewCache(nCaches + 1)
    /\ entryApi' = nCaches + 1
    /\ NewSensors
    /\ UNCHANGED <<now, calls, sess, owner, threadVars>>

\* A sensor's fetch (get_account_sync, get_budget_sync, ...) calls
\* self.get_session() on the cache the sensor was given.
SensorCall(t) ==
    /\ FirstIdle(t)
    /\ entryApi # NoCache
    /\ BeginCall(t, entryApi)
    /\ expiredSeen' = [expiredSeen EXCEPT ![t] =
                          IF Expired(entryApi) THEN actual[entryApi] ELSE NoSession]
    /\ UNCHANGED <<now, cacheVars, actual, sessionStartedAt, lock, sess, owner>>
    /\ UNCHANGED sensorVars

\* handle_get_transactions: api = from_config_entry(...) builds a new cache,
\* then get_actual_transactions calls api.get_session() on it.
ServiceCall(t) ==
    /\ FirstIdle(t)
    /\ nCaches < MaxCaches
    /\ NewCache(nCaches + 1)
    /\ BeginCall(t, nCaches + 1)
    /\ expiredSeen' = [expiredSeen EXCEPT ![t] = NoSession]
    /\ UNCHANGED <<now, entryApi, sess, owner>>
    /\ UNCHANGED sensorVars

\* Lock without mutual exclusion: the thread enters whoever holds the lock.
LockNoExclusion(t) ==
    /\ pc[t] = "acquire"
    /\ lock' = [lock EXCEPT ![api[t]] = t]
    /\ pc' = [pc EXCEPT ![t] = "expiry"]
    /\ UNCHANGED <<now, calls, cacheVars, actual, sessionStartedAt, sess, owner,
                   api, result, callLog, expiredSeen>>
    /\ UNCHANGED sensorVars

\* with self._lock: (entry)
Lock(t) ==
    /\ pc[t] = "acquire"
    /\ lock[api[t]] = NoThread
    /\ lock' = [lock EXCEPT ![api[t]] = t]
    /\ pc' = [pc EXCEPT ![t] = "expiry"]
    /\ UNCHANGED <<now, calls, cacheVars, actual, sessionStartedAt, sess, owner,
                   api, result, callLog, expiredSeen>>
    /\ UNCHANGED sensorVars

\* CheckExpiry without the try/except around __exit__: an error while
\* closing leaves the with-block and reaches the caller.
CheckExpiryPropagates(t) ==
    LET c == api[t]
        h == actual[c]
    IN  /\ pc[t] = "expiry"
        /\ IF Expired(c)
           THEN \/ /\ callLog' = [callLog EXCEPT ![t] = Append(@, Event("close", h, "ok"))]
                   /\ sess' = [sess EXCEPT ![h] = "closed"]
                   /\ actual' = [actual EXCEPT ![c] = NoSession]
                   /\ pc' = [pc EXCEPT ![t] = "validate"]
                   /\ UNCHANGED lock
                \/ /\ callLog' = [callLog EXCEPT ![t] = <<>>]
                   /\ pc' = [pc EXCEPT ![t] = "raised"]
                   /\ lock' = [lock EXCEPT ![c] = NoThread]
                   /\ UNCHANGED <<sess, actual>>
           ELSE /\ pc' = [pc EXCEPT ![t] = "validate"]
                /\ UNCHANGED <<callLog, sess, actual, lock>>
        /\ UNCHANGED <<now, calls, cacheVars, sessionStartedAt, owner,
                       api, result, expiredSeen>>
        /\ UNCHANGED sensorVars

\* "Invalidate session if it is too old": close it (errors are logged and
\* swallowed) and set self.actual = None.  When __exit__ raises, the backend
\* session may or may not have been closed.
CheckExpiry(t) ==
    LET c == api[t]
        h == actual[c]
    IN  /\ pc[t] = "expiry"
        /\ pc' = [pc EXCEPT ![t] = "validate"]
        /\ IF Expired(c)
           THEN \E o \in {"ok", "raise"} :
                  /\ callLog' = [callLog EXCEPT ![t] = Append(@, Event("close", h, o))]
                  /\ \/ sess' = [sess EXCEPT ![h] = "closed"]
                     \/ o = "raise" /\ sess' = sess
                  /\ actual' = [actual EXCEPT ![c] = NoSession]
           ELSE UNCHANGED <<callLog, sess, actual>>
        /\ UNCHANGED <<now, calls, cacheVars, sessionStartedAt, lock, owner,
                       api, result, expiredSeen>>
        /\ UNCHANGED sensorVars

\* Validate with the test inverted: a validated handle is discarded.
ValidateInverted(t) ==
    LET c == api[t]
        h == actual[c]
    IN  /\ pc[t] = "validate"
        /\ pc' = [pc EXCEPT ![t] = "create"]
        /\ IF h # NoSession
           THEN \E o \in {"ok", "invalid", "raise"} :
                  /\ callLog' = [callLog EXCEPT ![t] = Append(@, Event("validate", h, o))]
                  /\ actual' = IF o # "ok" THEN actual
                               ELSE [actual EXCEPT ![c] = NoSession]
           ELSE UNCHANGED <<callLog, actual>>
        /\ UNCHANGED <<now, calls, cacheVars, sessionStartedAt, lock, sess, owner,
                       api, result, expiredSeen>>
        /\ UNCHANGED sensorVars

\* "Validate existing session": self.actual.validate(); when it answers
\* "not validated" or raises, the error is logged and self.actual = None.
Validate(t) ==
    LET c == api[t]
        h == actual[c]
    IN  /\ pc[t] = "validate"
        /\ pc' = [pc EXCEPT ![t] = "create"]
        /\ IF h # NoSession
           THEN \E o \in {"ok", "invalid", "raise"} :
                  /\ callLog' = [callLog EXCEPT ![t] = Append(@, Event("validate", h, o))]
                  /\ actual' = IF o = "ok" THEN actual
                               ELSE [actual EXCEPT ![c] = NoSession]
           ELSE UNCHANGED <<callLog, actual>>
        /\ UNCHANGED <<now, calls, cacheVars, sessionStartedAt, lock, sess, owner,
                       api, result, expiredSeen>>
        /\ UNCHANGED sensorVars

\* create_session raising in __enter__, with the lock left held.
OpenFailsHoldsLock(t, c) ==
    /\ callLog' = [callLog EXCEPT ![t] = <<>>]
    /\ pc' = [pc EXCEPT ![t] = "raised"]
    /\ UNCHANGED <<lock, actual, sessionStartedAt, sess, owner>>

\* create_session: Actual(...).__enter__() raises (authentication, TLS,
\* network, unknown file).  The exception leaves the with-block, which
\* releases the lock, and reaches the caller; self.actual stays None.
OpenFails(t, c) ==
    /\ callLog' = [callLog EXCEPT ![t] = <<>>]
    /\ pc' = [pc EXCEPT ![t] = "raised"]
    /\ lock' = [lock EXCEPT ![c] = NoThread]
    /\ UNCHANGED <<actual, sessionStartedAt, sess, owner>>

\* create_session storing the handle before it validated it.
OpenRejectedStored(t, c, h) ==
    /\ h # NoSession
    /\ callLog' = [callLog EXCEPT ![t] = <<>>]
    /\ sess' = [sess EXCEPT ![h] = "rejected"]
    /\ owner' = [owner EXCEPT ![h] = c]
    /\ actual' = [actual EXCEPT ![c] = h]
    /\ pc' = [pc EXCEPT ![t] = "raised"]
    /\ lock' = [lock EXCEPT ![c] = NoThread]
    /\ UNCHANGED sessionStartedAt

\* create_session: the session is opened, but validate() does not validate
\* it: Exception("Session not validated") leaves create_session and the
\* with-block.  Nothing closes the session that was opened.
OpenRejected(t, c, h) ==
    /\ h # NoSession
    /\ callLog' = [callLog EXCEPT ![t] = <<>>]
    /\ sess' = [sess EXCEPT ![h] = "rejected"]
    /\ owner' = [owner EXCEPT ![h] = c]
    /\ pc' = [pc EXCEPT ![t] = "raised"]
    /\ lock' = [lock EXCEPT ![c] = NoThread]
    /\ UNCHANGED <<actual, sessionStartedAt>>

\* create_session returns the opened, validated session; get_session stores
\* it with sessionStartedAt = now(), and the with-block releases the lock.
OpenValidated(t, c, h) ==
    /\ h # NoSession
    /\ callLog' = [callLog EXCEPT ![t] = Append(@, Event("create", h, "ok"))]
    /\ sess' = [sess EXCEPT ![h] = "open"]
    /\ owner' = [owner EXCEPT ![h] = c]
    /\ actual' = [actual EXCEPT ![c] = h]
    /\ sessionStartedAt' = [sessionStartedAt EXCEPT ![c] = now]
    /\ pc' = [pc EXCEPT ![t] = "return"]
    /\ lock' = [lock EXCEPT ![c] = NoThread]

\* "Create a new session if needed": if not self.actual, create_session();
\* otherwise the with-block just ends and releases the lock.
Create(t) ==
    LET c == api[t]
        h == NextSession
    IN  /\ pc[t] = "create"
        /\ IF actual[c] # NoSession
           THEN /\ pc' = [pc EXCEPT ![t] = "return"]
                /\ lock' = [lock EXCEPT ![c] = NoThread]
                /\ UNCHANGED <<callLog, actual, sessionStartedAt, sess, owner>>
           ELSE \/ OpenFails(t, c)
                \/ OpenRejected(t, c, h)
                \/ OpenValidated(t, c, h)
        /\ UNCHANGED <<now, calls, cacheVars, api, result, expiredSeen>>
        /\ UNCHANGED sensorVars

\* return self.actual  ("Return session after lock is released")
Return(t) ==
    /\ pc[t] = "return"
    /\ result' = [result EXCEPT ![t] = actual[api[t]]]
    /\ pc' = [pc EXCEPT ![t] = "using"]
    /\ UNCHANGED <<now, calls, cacheVars, actual, sessionStartedAt, lock, sess, owner,
                   api, callLog, expiredSeen>>
    /\ UNCHANGED sensorVars

\* The caller runs its query on actual.session and ends.
Use(t) ==
    /\ pc[t] = "using"
    /\ EndCall(t)
    /\ UNCHANGED <<now, calls, cacheVars, lock, sess, owner>>
    /\ UNCHANGED sensorVars

\* The caller of a get_session() that raised handles the error and ends.
Fail(t) ==
    /\ pc[t] = "raised"
    /\ EndCall(t)
    /\ UNCHANGED <<now, calls, cacheVars, lock, sess, owner>>
    /\ UNCHANGED sensorVars

Next ==
    \/ Tick
    \/ SetupEntry
    \/ \E t \in Threads : SensorCall(t)
    \/ \E t \in Threads : ServiceCall(t)
    \/ \E t \in Threads : Lock(t)
    \/ \E t \in Threads : CheckExpiry(t)
    \/ \E t \in Threads : Validate(t)
    \/ \E t \in Threads : Create(t)
    \/ \E t \in Threads : Return(t)
    \/ \E t \in Threads : Use(t)
    \/ \E t \in Threads : Fail(t)

Spec == Init /\ [][Next]_vars

\* ---------------------------------------------------------------------------
\* The sensors' polls.

\* The fields of dataclass Budget, all without a default.
BudgetFields == {"id", "group", "category", "amounts", "balance"}
\* The keywords get_budget_sync gives to Budget(...).
BudgetKeywords == {"name", "amounts", "balance"}

\* The __init__ of a dataclass raises TypeError for a keyword that is not a
\* field and for a field without a default that is not given.
ConstructorRaises(fields, keywords) == keywords # fields

\* sorted(budget.amounts, key=lambda x: x.month)
SortedByMonth(rows) == SortSeq(rows, LAMBDA a, b : a < b)

\* get_account_sync after get_session(): actual.session on the answer, the
\* query, and "not found" when it has no row.
GetAccountRaises(h, rows) == h = NoSession \/ rows = <<>>

\* get_budget_sync after get_session(): actual.session on the answer, the
\* query, "not found" when it has no row, and the Budget(...) it builds.
GetBudgetRaises(h, rows) ==
    \/ h = NoSession
    \/ rows = <<>>
    \/ ConstructorRaises(BudgetFields, BudgetKeywords)

Rows(s) == IF s = "account" THEN AccountRows ELSE BudgetRows

FetchRaises(s, h, rows) ==
    IF s = "account" THEN GetAccountRaises(h, rows) ELSE GetBudgetRaises(h, rows)

\* The throttle of async_update, with <= for <.
ThrottledInclusive(s) == now - lastUpdated[s] <= MINIMUM_INTERVAL

\* The throttle of async_update.
Throttled(s) == now - lastUpdated[s] < MINIMUM_INTERVAL

\* A minute passes.
Minute ==
    /\ now < MaxMinutes
    /\ now' = now + MINIMUM_INTERVAL
    /\ UNCHANGED <<calls, cacheVars, actual, sessionStartedAt, lock, sess, owner,
                   threadVars, sensorVars>>

\* async_update within the minimum interval: it returns at once.
UpdateThrottled(s) ==
    /\ entryApi # NoCache
    /\ poll[s] # "fetching"
    /\ Throttled(s)
    /\ poll' = [poll EXCEPT ![s] = "throttled"]
    /\ UNCHANGED <<now, calls, cacheVars, actual, sessionStartedAt, lock, sess, owner,
                   threadVars, available, balance, amounts, lastUpdated, job, fetched>>

\* async_update past the minimum interval: api.get_account / api.get_budget
\* hands the fetch to an executor thread, which calls get_session().
UpdateFetch(s, t) ==
    /\ entryApi # NoCache
    /\ poll[s] # "fetching"
    /\ ~Throttled(s)
    /\ FirstIdle(t)
    /\ BeginCall(t, entryApi)
    /\ expiredSeen' = [expiredSeen EXCEPT ![t] =
                          IF Expired(entryApi) THEN actual[entryApi] ELSE NoSession]
    /\ poll' = [poll EXCEPT ![s] = "fetching"]
    /\ job' = [job EXCEPT ![t] = s]
    /\ UNCHANGED <<now, cacheVars, actual, sessionStartedAt, lock, sess, owner,
                   available, balance, amounts, lastUpdated, fetched>>

\* The except branch of async_update.
UpdateFailed(s) ==
    /\ available' = [available EXCEPT ![s] = FALSE]
    /\ poll' = [poll EXCEPT ![s] = "failed"]
    /\ UNCHANGED <<balance, amounts, lastUpdated>>

\* The try branch of async_update, with the sensor made available again.
UpdateStoredRestores(s, rows) ==
    /\ lastUpdated' = [lastUpdated EXCEPT ![s] = now]
    /\ IF s = "account"
       THEN /\ balance' = [balance EXCEPT ![s] = rows[1]]
            /\ UNCHANGED amounts
       ELSE /\ amounts' = [amounts EXCEPT ![s] = SortedByMonth(rows)]
            /\ UNCHANGED balance
    /\ poll' = [poll EXCEPT ![s] = "stored"]
    /\ available' = [available EXCEPT ![s] = TRUE]

\* The try branch of async_update once the fetch returned: the new balance
\* (and the budget's amounts) and the timestamp.
UpdateStored(s, rows) ==
    /\ lastUpdated' = [lastUpdated EXCEPT ![s] = now]
    /\ IF s = "account"
       THEN /\ balance' = [balance EXCEPT ![s] = rows[1]]
            /\ UNCHANGED amounts
       ELSE /\ amounts' = [amounts EXCEPT ![s] = SortedByMonth(rows)]
            /\ UNCHANGED balance
    /\ poll' = [poll EXCEPT ![s] = "stored"]
    /\ UNCHANGED available

\* get_session() raised in the executor thread: the error reaches async_update.
FetchRaised(t) ==
    /\ pc[t] = "raised"
    /\ job[t] # "none"
    /\ UpdateFailed(job[t])
    /\ job' = [job EXCEPT ![t] = "none"]
    /\ EndCall(t)
    /\ UNCHANGED <<now, calls, cacheVars, lock, sess, owner, fetched>>

\* get_session() returned: the thread queries the backend for the sensor's
\* name, and async_update stores the answer or handles the error.
FetchDone(t) ==
    /\ pc[t] = "using"
    /\ job[t] # "none"
    /\ \E rows \in Rows(job[t]) :
          /\ fetched' = [fetched EXCEPT ![job[t]] = rows]
          /\ IF FetchRaises(job[t], result[t], rows)
             THEN UpdateFailed(job[t])
             ELSE UpdateStored(job[t], rows)
    /\ job' = [job EXCEPT ![t] = "none"]
    /\ EndCall(t)
    /\ UNCHANGED <<now, calls, cacheVars, lock, sess, owner>>

SensorNext ==
    \/ Minute
    \/ SetupEntry
    \/ \E s \in Sensors : UpdateThrottled(s)
    \/ \E s \in Sensors, t \in Threads : UpdateFetch(s, t)
    \/ \E t \in Threads : Lock(t)
    \/ \E t \in Threads : CheckExpiry(t)
    \/ \E t \in Threads : Validate(t)
    \/ \E t \in Threads : Create(t)
    \/ \E t \in Threads : Return(t)
    \/ \E t \in Threads : FetchDone(t)
    \/ \E t \in Threads : FetchRaised(t)

SensorSpec == Init /\ [][SensorNext]_vars

\* The lock is handed to a waiting thread sooner or later, and every backend
\* call made inside the with-block returns.
FairSpec ==
    /\ Spec
    /\ \A t \in Threads :
        /\ SF_vars(Lock(t))
        /\ WF_vars(CheckExpiry(t))
        /\ WF_vars(Validate(t))
        /\ WF_vars(Create(t))

\* ------------------------------------------------------------------ claims

\* The thread's get_session() has left the with-block without raising.
LeftBlock(t) == pc[t] \in {"return", "using"}

\* The number of create_session calls a log records.
CreatesIn(log) == Cardinality({i \in DOMAIN log : log[i].op = "create"})

\* Thread t1 found the handle h0 expired, closed it and created h1, and h1
\* is still the stored, unexpired handle; t2 is another call on the same
\* cache that began while h0 was stored and expired.
RepairedWhileWaiting(t1, t2) ==
    /\ t1 # t2
    /\ api[t1] # NoCache
    /\ api[t2] = api[t1]
    /\ LeftBlock(t1)
    /\ LeftBlock(t2)
    /\ expiredSeen[t2] # NoSession
    /\ Len(callLog[t1]) = 2
    /\ callLog[t1][1].op = "close"
    /\ callLog[t1][1].h = expiredSeen[t2]
    /\ callLog[t1][2].op = "create"
    /\ actual[api[t1]] = callLog[t1][2].h
    /\ now - sessionStartedAt[api[t1]] <= SESSION_TIMEOUT

\* C1: when two get_session() calls run concurrently on one cache while the
\* stored handle is expired and the backend accepts the new session,
\* create_session is called once across both calls: the call that did not
\* create validated the handle the other one created, and nothing else.
SerializedRepair ==
    \A t1 \in Threads : \A t2 \in Threads :
        RepairedWhileWaiting(t1, t2) =>
            /\ CreatesIn(callLog[t1]) + CreatesIn(callLog[t2]) = 1
            /\ callLog[t2] = <<Event("validate", callLog[t1][2].h, "ok")>>

SerializedRepairWitness ==
    \E t1 \in Threads : \E t2 \in Threads :
        /\ RepairedWhileWaiting(t1, t2)
        /\ expiredSeen[t1] = expiredSeen[t2]

\* C2: the value a get_session() call hands to its caller is an existing
\* handle (not None) whose session is open, the one this call validated or
\* created.
HandedOutValid ==
    [][\A t \in Threads :
          (pc[t] = "return" /\ pc'[t] = "using") =>
              /\ result'[t] # NoSession
              /\ sess[result'[t]] = "open"
              /\ callLog[t] # <<>>
              /\ callLog[t][Len(callLog[t])].h = result'[t]]_vars

\* C3: when validate() fails on the stored, unexpired handle and the
\* recreation succeeds, the call has closed the old handle.
ValidationFailureClosesOld ==
    \A t \in Threads :
        ( /\ LeftBlock(t)
          /\ Len(callLog[t]) = 2
          /\ callLog[t][1].op = "validate"
          /\ callLog[t][1].res # "ok"
          /\ callLog[t][2].op = "create" )
        => sess[callLog[t][1].h] = "closed"

\* C4: a stored handle older than SESSION_TIMEOUT is closed and discarded by
\* the expiry step, before the same call creates and stores a new handle
\* with sessionStartedAt = now; a stored handle that is at most
\* SESSION_TIMEOUT old is left alone by the expiry step, and no step closes
\* a session of a cache whose handle is not older than SESSION_TIMEOUT.
ExpiryClosesThenCreates ==
    [][/\ \A t \in Threads :
            LET c == api[t]
                h == actual[c]
            IN  /\ (pc[t] = "expiry" /\ pc'[t] = "validate") =>
                     IF h # NoSession /\ now - sessionStartedAt[c] > SESSION_TIMEOUT
                     THEN /\ actual'[c] = NoSession
                          /\ Len(callLog'[t]) = 1
                          /\ callLog'[t][1].op = "close"
                          /\ callLog'[t][1].h = h
                     ELSE /\ actual'[c] = h
                          /\ callLog'[t] = callLog[t]
                          /\ sess' = sess
                /\ ( /\ pc[t] = "create"
                     /\ pc'[t] = "return"
                     /\ callLog[t] # <<>>
                     /\ callLog[t][1].op = "close" ) =>
                     /\ h = NoSession
                     /\ actual'[c] \notin {NoSession, callLog[t][1].h}
                     /\ sess[actual'[c]] = "unused"
                     /\ sess'[actual'[c]] = "open"
                     /\ sessionStartedAt'[c] = now'
                     /\ callLog'[t] = Append(callLog[t], Event("create", actual'[c], "ok"))
       /\ \A g \in Sessions :
            (sess[g] # "closed" /\ sess'[g] = "closed") =>
                /\ actual[owner[g]] = g
                /\ now - sessionStartedAt[owner[g]] > SESSION_TIMEOUT]_vars

ExpiryClosesThenCreatesWitness ==
    \E t \in Threads :
        /\ pc[t] = "return"
        /\ Len(callLog[t]) = 2
        /\ callLog[t][1].op = "close"
        /\ sess[callLog[t][1].h] = "closed"
        /\ callLog[t][2].op = "create"
        /\ actual[api[t]] = callLog[t][2].h
        /\ sessionStartedAt[api[t]] = now
        /\ now > SESSION_TIMEOUT

\* C5: the sessions a cache has opened and not closed are at most one.
AtMostOneLiveHandle ==
    \A c \in Caches :
        Cardinality({h \in Sessions : owner[h] = c /\ IsOpen(h)}) <= 1

\* C6: when create_session raises inside get_session(), the call raises to
\* its caller with the lock released and self.actual unset; the stored
\* handle is never a session that failed its creation, and a call that
\* finds self.actual unset calls create_session again: it raises or stores
\* a session opened by this call.
CreationErrorPropagates ==
    [][\A t \in Threads :
          LET c == api[t]
          IN  /\ (pc[t] = "create" /\ pc'[t] = "raised") =>
                   /\ actual[c] = NoSession
                   /\ actual'[c] = NoSession
                   /\ lock'[c] = NoThread
                   /\ result'[t] = NoSession
              /\ (pc[t] = "create" /\ pc'[t] # "create" /\ actual[c] = NoSession) =>
                   \/ pc'[t] = "raised"
                   \/ /\ pc'[t] = "return"
                      /\ actual'[c] # NoSession
                      /\ sess[actual'[c]] = "unused"
              /\ \A d \in Caches :
                   actual'[d] # NoSession => sess'[actual'[d]] = "open"]_vars

CreationErrorPropagatesWitness ==
    \E t \in Threads : \E u \in Threads : \E h \in Sessions :
        /\ pc[t] = "raised"
        /\ sess[h] = "rejected"
        /\ owner[h] = api[t]
        /\ api[u] = api[t]
        /\ pc[u] = "create"
        /\ actual[api[u]] = NoSession

\* C7: a get_session() whose expiry step left the stored handle alone (it
\* was no older than SESSION_TIMEOUT) and whose validate() succeeds leaves the handle, its
\* sessionStartedAt and every session as they were, calls neither close nor
\* create_session, and returns that handle.
IdempotentReuse ==
    [][\A t \in Threads :
          LET c == api[t]
              h == actual[c]
              reused == <<Event("validate", h, "ok")>>
          IN  /\ ( /\ pc[t] = "validate"
                   /\ pc'[t] = "create"
                   /\ h # NoSession
                   /\ callLog'[t] = reused ) =>
                   /\ actual'[c] = h
                   /\ sessionStartedAt' = sessionStartedAt
                   /\ sess' = sess
              /\ ( /\ pc[t] = "create"
                   /\ pc'[t] # "create"
                   /\ h # NoSession
                   /\ callLog[t] = reused ) =>
                   /\ pc'[t] = "return"
                   /\ callLog'[t] = reused
                   /\ actual'[c] = h
                   /\ sessionStartedAt' = sessionStartedAt
                   /\ sess' = sess
              /\ ( /\ pc[t] = "return"
                   /\ pc'[t] = "using"
                   /\ h # NoSession
                   /\ callLog[t] = reused ) =>
                   result'[t] = h]_vars

IdempotentReuseWitness ==
    \E t \in Threads :
        /\ pc[t] = "using"
        /\ result[t] # NoSession
        /\ callLog[t] = <<Event("validate", result[t], "ok")>>
        /\ actual[api[t]] = result[t]
        /\ sess[result[t]] = "open"
        /\ \A u \in Threads : u # t => pc[u] = "idle"

\* C8: while a caller is using the handle get_session() returned to it, no
\* step closes that handle's session or discards the handle from the cache.
NoCloseDuringUse ==
    [][\A t \in Threads :
          ( /\ pc[t] = "using"
            /\ pc'[t] = "using"
            /\ result[t] # NoSession
            /\ actual[api[t]] = result[t]
            /\ sess[result[t]] = "open" ) =>
              /\ actual'[api[t]] = result[t]
              /\ sess'[result[t]] = "open"]_vars

\* C9: one cache is constructed for the config entry, and every
\* get_session() call, from a sensor or from get_transactions, is made on it.
OneCachePerEntry ==
    /\ nCaches <= 1
    /\ \A t \in Threads : \A u \in Threads :
          (api[t] # NoCache /\ api[u] # NoCache) => api[t] = api[u]

\* C10: the lock of a cache is only held by a thread inside the with-block
\* of get_session() on that cache; it is released again whoever holds it,
\* and every thread waiting for it enters the with-block.
LockReleasedOnEveryPath ==
    /\ [](\A c \in Caches :
            lock[c] # NoThread =>
                /\ api[lock[c]] = c
                /\ pc[lock[c]] \in {"expiry", "validate", "create"})
    /\ \A c \in Caches : (lock[c] # NoThread) ~> (lock[c] = NoThread)
    /\ \A t \in Threads : (pc[t] = "acquire") ~> (pc[t] = "expiry")

LockReleasedOnEveryPathWitness ==
    \E t \in Threads : \E u \in Threads :
        /\ pc[t] = "raised"
        /\ api[u] = api[t]
        /\ lock[api[u]] = u
        /\ pc[u] = "expiry"

\* The first backend call of the thread's get_session() was a close that raised.
CloseRaised(t) ==
    /\ callLog[t] # <<>>
    /\ callLog[t][1].op = "close"
    /\ callLog[t][1].res = "raise"

\* C11: when closing the expired handle raises, get_session() goes on inside
\* the with-block: the old handle is discarded, validation is skipped,
\* create_session is called, and the call raises only if the creation does;
\* when the creation succeeds the new handle is stored.
CloseErrorsSwallowed ==
    [][\A t \in Threads :
          LET c == api[t]
          IN  /\ ( /\ pc[t] = "expiry"
                   /\ pc'[t] # "expiry"
                   /\ actual[c] # NoSession
                   /\ now - sessionStartedAt[c] > SESSION_TIMEOUT ) =>
                   /\ pc'[t] = "validate"
                   /\ lock'[c] = t
                   /\ actual'[c] = NoSession
                   /\ callLog'[t][1].h = actual[c]
              /\ (CloseRaised(t) /\ pc[t] = "validate" /\ pc'[t] # "validate") =>
                   /\ pc'[t] = "create"
                   /\ callLog'[t] = callLog[t]
                   /\ actual'[c] = NoSession
              /\ (CloseRaised(t) /\ pc[t] = "create" /\ pc'[t] # "create") =>
                   \/ /\ pc'[t] = "raised"
                      /\ actual'[c] = NoSession
                   \/ /\ pc'[t] = "return"
                      /\ actual'[c] \notin {NoSession, callLog[t][1].h}
                      /\ sess[actual'[c]] = "unused"
                      /\ callLog'[t] =
                            Append(callLog[t], Event("create", actual'[c], "ok"))]_vars

CloseErrorsSwallowedWitness ==
    \E t \in Threads :
        /\ CloseRaised(t)
        /\ pc[t] = "using"
        /\ Len(callLog[t]) = 2
        /\ callLog[t][2].op = "create"
        /\ result[t] = callLog[t][2].h
        /\ actual[api[t]] = result[t]

\* C12: a session that a cache stored and that is still open belongs to a
\* cache that is still in use: the cache of the config entry, or the cache
\* of a call in progress.
TeardownOnDiscard ==
    \A h \in Sessions :
        sess[h] = "open" =>
            \/ owner[h] = entryApi
            \/ \E t \in Threads : api[t] = owner[h]

\* The fetch of sensor s, run by thread t, ends in this step with an error:
\* get_session() raised, or the query on its answer did.
FetchEndsRaising(s, t) ==
    /\ job[t] = s
    /\ job'[t] = "none"
    /\ \/ pc[t] = "raised"
       \/ pc[t] = "using" /\ FetchRaises(s, result[t], fetched'[s])

\* The fetch of sensor s, run by thread t, ends in this step with an answer.
FetchEndsReturning(s, t) ==
    /\ job[t] = s
    /\ job'[t] = "none"
    /\ pc[t] = "using"
    /\ ~FetchRaises(s, result[t], fetched'[s])

\* C13: sensor availability is one-way. A sensor is available when the
\* setup creates it; every async_update whose fetch raises leaves it
\* unavailable; and no step, not even an async_update whose fetch returns and
\* stores a new balance, makes an unavailable sensor available again.
AvailabilityOneWay ==
    [][\A s \in Sensors :
          /\ (entryApi = NoCache /\ entryApi' # NoCache) => available'[s]
          /\ \A t \in Threads : FetchEndsRaising(s, t) => ~available'[s]
          /\ (entryApi # NoCache /\ ~available[s]) => ~available'[s]]_vars

\* An unavailable sensor whose last async_update stored a new balance.
AvailabilityOneWayWitness ==
    \E s \in Sensors :
        /\ ~available[s]
        /\ poll[s] = "stored"
        /\ balance[s] # InitialBalance
        /\ lastUpdated[s] = now

\* C14: update throttle and failure frame. A fetch starts (a get_session()
\* call for the sensor) only when at least the minimum interval has passed
\* since the sensor's timestamp; an async_update that is throttled starts no
\* call and changes neither the cache, the sessions nor the sensor; a fetch
\* that raises leaves balance, amounts and timestamp as they were, so that
\* the next poll is not throttled; and the timestamp moves, to the current
\* time, only when a fetch returns.
UpdateThrottleAndFrame ==
    [][\A s \in Sensors :
          /\ \A t \in Threads :
                (job[t] # s /\ job'[t] = s) =>
                    /\ now - lastUpdated[s] >= MINIMUM_INTERVAL
                    /\ calls' = calls + 1
          /\ (poll[s] # "throttled" /\ poll'[s] = "throttled") =>
                /\ now - lastUpdated[s] < MINIMUM_INTERVAL
                /\ UNCHANGED <<calls, pc, api, job, lock, actual, sess, sessionStartedAt>>
                /\ UNCHANGED <<balance, amounts, available, lastUpdated>>
          /\ \A t \in Threads :
                FetchEndsRaising(s, t) =>
                    /\ balance'[s] = balance[s]
                    /\ amounts'[s] = amounts[s]
                    /\ lastUpdated'[s] = lastUpdated[s]
                    /\ now' - lastUpdated'[s] >= MINIMUM_INTERVAL
          /\ (entryApi # NoCache /\ lastUpdated'[s] # lastUpdated[s]) =>
                /\ lastUpdated'[s] = now
                /\ \E t \in Threads : FetchEndsReturning(s, t)]_vars

\* A sensor whose fetch raised keeps its old timestamp and is due again,
\* while another, stored this minute, has had an update throttled.
UpdateThrottleAndFrameWitness ==
    \E s1, s2 \in Sensors :
        /\ poll[s1] = "failed"
        /\ now - lastUpdated[s1] >= MINIMUM_INTERVAL
        /\ poll[s2] = "throttled"
        /\ lastUpdated[s2] = now
        /\ now > 0

\* C15: a budget sensor's async_update that passed the throttle, was handed
\* a session by get_session() and whose query found rows for its name
\* completes without error: the sensor holds the fetched amounts sorted by
\* month, its timestamp is the current time, and it is as available as it
\* was.
BudgetUpdateCompletes ==
    [][\A t \in Threads :
          ( /\ job[t] = "budget"
            /\ job'[t] = "none"
            /\ pc[t] = "using"
            /\ result[t] # NoSession
            /\ fetched'["budget"] # <<>> ) =>
              /\ amounts'["budget"] = SortedByMonth(fetched'["budget"])
              /\ lastUpdated'["budget"] = now
              /\ available'["budget"] = available["budget"]]_vars

====
